---------------------------- MODULE Spec2Model ----------------------------
(***************************************************************************)
(* Model of dlt/normalize/normalize.py: the Normalize stage.               *)
(*                                                                         *)
(*  - group_worker_files is a pure function, modelled by the operator      *)
(*    group_worker_files and exercised by the specification SpecGroup.     *)
(*  - The run driver (run, spool_schema_files, spool_files), the           *)
(*    coordinator (map_parallel, map_single, update_table) and the worker  *)
(*    (w_normalize_files) are modelled by the specification Spec: one      *)
(*    coordinator thread, positioned by pc, and the pool's futures, each   *)
(*    a worker call advancing one input file at a time.                    *)
(*                                                                         *)
(* Collaborators that live outside normalize.py (Schema, LoadStorage,      *)
(* NormalizeStorage, the item normalizers, chunks, merge_row_count) are    *)
(* modelled from their contracts.                                          *)
(***************************************************************************)
EXTENDS Integers, Sequences, FiniteSets, TLC

VARIABLES
    files,          \* extracted file id -> [schema, table, format, content]
    pool,           \* the Executor handed to run(): [kind, max_workers]
    config,         \* self.config.destination_capabilities (a shared, mutable object)
    configured,     \* the capabilities as they were when Normalize was constructed
    extracted,      \* file ids present under extracted/
    temp,           \* load_id -> package under temp/, or NoPackage
    processing,     \* load_id -> package under processing/, or NoPackage
    schema_storage, \* schema name -> saved Schema, or NoSchema
    signalled,      \* the process-wide termination flag
    clock,          \* the wall clock read by pendulum.now()
    pc,             \* position of the coordinator thread
    co,             \* the coordinator's local variables
    futures,        \* the tasks submitted to the pool, by submission number
    assigned,       \* history: <<schema name, load_id>> of every group started
    gw              \* harness of group_worker_files: [pc, files, no_groups, out]

vars == << files, pool, config, configured, extracted, temp, processing,
           schema_storage, signalled, clock, pc, co, futures, assigned, gw >>

-----------------------------------------------------------------------------
(* Bounds of the model *)

\* largest number of extracted files of one run
MaxFiles == 3
\* largest _max_workers of a process pool
MaxWorkers == 2
\* largest file list and group count given to group_worker_files in SpecGroup
MaxGFiles == 13
MaxGroups == 5
\* largest number of files of a run whose destination capabilities are not
\* the standard ones
MaxCapsFiles == 1

None == "None"

Min(a, b) == IF a < b THEN a ELSE b
Max(a, b) == IF a > b THEN a ELSE b

Range(s) == { s[i] : i \in DOMAIN s }

Contains(s, e) == \E i \in DOMAIN s : s[i] = e

RECURSIVE Flatten(_)
Flatten(ss) == IF ss = << >> THEN << >> ELSE Head(ss) \o Flatten(Tail(ss))

RECURSIVE SetToSortedSeq(_)
SetToSortedSeq(S) ==
    IF S = {} THEN << >>
    ELSE LET m == CHOOSE x \in S : \A y \in S : x <= y
         IN  << m >> \o SetToSortedSeq(S \ {m})

Reverse(s) == [ i \in 1..Len(s) |-> s[Len(s) + 1 - i] ]

-----------------------------------------------------------------------------
(* group_worker_files, lines 170-185.  File names are numbers; sorted()    *)
(* is their numeric order.                                                 *)

\* dlt.common.utils.chunks: consecutive slices of n elements, the last shorter
chunks(seq, n) ==
    [ i \in 1..((Len(seq) + n - 1) \div n) |->
        SubSeq(seq, (i - 1) * n + 1, Min(i * n, Len(seq))) ]

\* chunk_files[k].append(file) for a Python index k < 0; an index below
\* -len(chunk_files) raises IndexError
AppendAt(cf, k, file) ==
    IF cf.err \/ Len(cf.chunks) + k < 0 \/ k >= 0
    THEN [ err |-> TRUE, chunks |-> cf.chunks ]
    ELSE [ err |-> FALSE,
           chunks |-> [ cf.chunks EXCEPT ![Len(cf.chunks) + k + 1] = Append(@, file) ] ]

\* the body of the for loop of line 181-182, from position idx of the
\* reversed popped chunk
RECURSIVE DistributeMut(_, _, _, _, _)
DistributeMut(cf, popped, idx, l_idx, remainder_l) ==
    IF idx >= Len(popped) THEN cf
    ELSE DistributeMut(AppendAt(cf, -l_idx - idx - remainder_l, popped[1]),
                       popped, idx + 1, l_idx, remainder_l)

RECURSIVE Distribute(_, _, _, _, _)
Distribute(cf, popped, idx, l_idx, remainder_l) ==
    IF idx >= Len(popped) THEN cf
    ELSE Distribute(AppendAt(cf, -l_idx - idx - remainder_l, popped[idx + 1]),
                    popped, idx + 1, l_idx, remainder_l)

\* the while loop of lines 180-184
RECURSIVE RedistributeMut(_, _, _)
RedistributeMut(cf, remainder_l, l_idx) ==
    IF remainder_l <= 1 \/ cf.err THEN cf
    ELSE LET n      == Len(cf.chunks)
             popped == Reverse(cf.chunks[n])
             rest   == [ err |-> FALSE, chunks |-> SubSeq(cf.chunks, 1, n - 1) ]
         IN  RedistributeMut(Distribute(rest, popped, 0, l_idx, remainder_l),
                             remainder_l - 1, Len(popped))

RECURSIVE Redistribute(_, _, _)
Redistribute(cf, remainder_l, l_idx) ==
    IF remainder_l <= 0 \/ cf.err THEN cf
    ELSE LET n      == Len(cf.chunks)
             popped == Reverse(cf.chunks[n])
             rest   == [ err |-> FALSE, chunks |-> SubSeq(cf.chunks, 1, n - 1) ]
         IN  Redistribute(Distribute(rest, popped, 0, l_idx, remainder_l),
                          remainder_l - 1, Len(popped))

group_worker_files(fs, no_groups) ==
    LET sorted      == SortSeq(fs, LAMBDA a, b : a < b)
        chunk_size  == Max(Len(sorted) \div no_groups, 1)
        chunk_files == chunks(sorted, chunk_size)
        remainder_l == Len(chunk_files) - no_groups
    IN  Redistribute([ err |-> FALSE, chunks |-> chunk_files ], remainder_l, 0)

-----------------------------------------------------------------------------
(* Data of the run *)

Tables  == { "a", "b" }
Types   == { "bigint", "text" }
Schemas == { "s1", "s2" }
\* file formats of extracted files (the format field of the file name)
InputFormats == { "jsonl", "parquet" }
\* what a file holds: no rows, or rows whose column x has the given type
Contents == { "empty" } \cup Types

\* Schema(name): no tables
EmptyTable == [ exists |-> FALSE, x |-> None, variants |-> {} ]
NewSchema == [ t \in Tables |-> EmptyTable ]

\* no schema of that name in the schema storage, no schema file in a package
NoSchema == [ t \in Tables |-> [ exists |-> FALSE, x |-> "NoSchema", variants |-> {} ] ]

\* no directory of that load_id
NoPackage == [ exists |-> FALSE, files |-> {}, schema |-> NoSchema,
               saved_updates |-> FALSE, updates |-> << >> ]

\* temp/<load_id> as create_temp_load_package leaves it
NewPackage == [ exists |-> TRUE, files |-> {}, schema |-> NoSchema,
                saved_updates |-> FALSE, updates |-> << >> ]

\* a future that holds no result
NoResult == [ schema_updates |-> << >>, total_items |-> 0, closed_files |-> {},
              row_counts |-> << >> ]

LoadIds == 1..(MaxFiles + 1)

-----------------------------------------------------------------------------
(* Schema.update_table and the item normalizers (contracts)                *)

\* a partial table: column col ("x" or "variant") of type ty on a table
Delta(t, col, ty) == [ table |-> t, col |-> col, ty |-> ty ]

\* Schema.update_table raises CannotCoerceColumnException when the incoming
\* type of a column differs from the type the table already has
Conflicts(schema, d) ==
    /\ d.col = "x"
    /\ schema[d.table].x # None
    /\ schema[d.table].x # d.ty

ApplyDelta(schema, d) ==
    IF d.col = "x"
    THEN [ schema EXCEPT ![d.table] = [ @ EXCEPT !.exists = TRUE, !.x = d.ty ] ]
    ELSE [ schema EXCEPT ![d.table] =
             [ @ EXCEPT !.exists = TRUE, !.variants = @ \cup { d.ty } ] ]

\* an item normalizer on one file against the worker's Schema: the partial
\* updates it yields.  Rows whose type differs from the column's go to a
\* variant column.
NormalizerUpdates(schema, f) ==
    LET t == f.table
        c == f.content
    IN  IF c = "empty" THEN << >>
        ELSE IF schema[t].x = None THEN << Delta(t, "x", c) >>
        ELSE IF schema[t].x = c THEN << >>
        ELSE IF c \in schema[t].variants THEN << >>
        ELSE << Delta(t, "variant", c) >>

RECURSIVE ApplyAll(_, _)
ApplyAll(schema, ds) ==
    IF ds = << >> THEN schema ELSE ApplyAll(ApplyDelta(schema, Head(ds)), Tail(ds))

\* a merge in which the counts of b replace those of a
merge_row_count_replacing(a, b) ==
    [ t \in DOMAIN a \cup DOMAIN b |-> IF t \in DOMAIN b THEN b[t] ELSE a[t] ]

\* merge_row_count / increase_row_count: per-key addition
merge_row_count(a, b) ==
    [ t \in DOMAIN a \cup DOMAIN b |->
        (IF t \in DOMAIN a THEN a[t] ELSE 0) + (IF t \in DOMAIN b THEN b[t] ELSE 0) ]

RowsOf(f) == IF f.content = "empty" THEN 0 ELSE 1

-----------------------------------------------------------------------------
(* w_normalize_files, lines 73-160                                         *)

\* a or b of Python, on format names
Or(a, b) == IF a # None THEN a ELSE b

\* _get_load_storage, lines 87-102, on the worker's view of the
\* capabilities (caps with the list `supported` it shares or owns).
\* Yields the write format that keys the Load Storage, and the list as the
\* call leaves it.
GetLoadStorageNoFallback(caps, supported, file_format) ==
    IF file_format = "parquet"
    THEN [ format |-> "arrow", supported |-> Append(supported, "arrow") ]
    ELSE [ format |-> Or(caps.preferred_loader_file_format,
                         caps.preferred_staging_file_format),
           supported |-> supported ]

GetLoadStorage(caps, supported, file_format) ==
    IF file_format = "parquet" /\ Contains(supported, file_format)
    THEN [ format |-> "arrow", supported |-> Append(supported, "arrow") ]
    ELSE [ format |-> Or(caps.preferred_loader_file_format,
                         caps.preferred_staging_file_format),
           supported |-> supported ]

\* the class chosen at line 116
ItemsNormalizerClass(file_format) ==
    IF file_format = "parquet" THEN "ParquetItemsNormalizer" ELSE "JsonLItemsNormalizer"

\* the list a worker call sees as supported_loader_file_formats: the
\* coordinator's own list when the call runs in the coordinator's process,
\* the pickled copy otherwise
SupportedOf(task) ==
    IF task.inline THEN config.supported_loader_file_formats ELSE task.supported

\* the state of a worker call after lines 81-110: the Schema rebuilt from
\* the snapshot and the default Load Storage created
NewTask(load_id, batch, snapshot, inline, supported) ==
    LET ls == GetLoadStorage(config, supported, config.preferred_loader_file_format)
    IN  [ load_id               |-> load_id,
          batch                 |-> batch,
          snapshot              |-> snapshot,
          inline                |-> inline,
          st                    |-> "running",
          pos                   |-> 0,
          schema                |-> snapshot,
          supported             |-> IF inline THEN << >> ELSE ls.supported,
          load_storages         |-> { ls.format },
          default_storage       |-> ls.format,
          load_storage          |-> ls.format,
          item_normalizers      |-> << >>,
          root_tables           |-> {},
          populated_root_tables |-> {},
          schema_updates        |-> << >>,
          total_items           |-> 0,
          row_counts            |-> << >>,
          written               |-> {},
          closed                |-> {},
          exc                   |-> None,
          result                |-> NoResult ]

\* the list supported_loader_file_formats of the coordinator's capabilities
\* after a worker call started in the coordinator's process
SupportedAfterStart(inline) ==
    IF inline
    THEN GetLoadStorage(config, config.supported_loader_file_formats,
                        config.preferred_loader_file_format).supported
    ELSE config.supported_loader_file_formats

\* a file written into the load package: by which call, from which input
\* (0: none, an empty file), through which Load Storage
Output(tid, src, table, fmt, kind) ==
    [ task |-> tid, src |-> src, table |-> table, fmt |-> fmt, kind |-> kind ]

\* what the item normalizer may do with the file: normalize it, fail on
\* I/O, or fail to coerce a column (only when the rows' type differs from
\* the column's)
Outcomes(task, f) ==
    { "ok", "IOError" } \cup
    ( IF /\ f.content # "empty"
         /\ task.schema[f.table].x # None
         /\ task.schema[f.table].x # f.content
      THEN { "CannotCoerceColumnException" } ELSE {} )

\* finally: load_storage.close_writers(load_id), line 156, then the raise
Raise(task, exc) ==
    [ task EXCEPT !.st = "done", !.exc = exc,
                  !.closed = @ \cup { task.load_storage } ]

\* one iteration of the loop of lines 125-144, on file id fid
NormalizeFile(tid, task, fid, outcome, pkg_exists) ==
    LET f       == files[fid]
        ls      == GetLoadStorage(config, SupportedOf(task), f.format)
        norms   == IF f.format \in DOMAIN task.item_normalizers
                   THEN task.item_normalizers
                   ELSE [ k \in DOMAIN task.item_normalizers \cup { f.format } |->
                            IF k = f.format
                            THEN [ class   |-> ItemsNormalizerClass(f.format),
                                   storage |-> ls.format ]
                            ELSE task.item_normalizers[k] ]
        ups     == NormalizerUpdates(task.schema, f)
        n       == RowsOf(f)
        out     == IF n > 0
                   THEN { Output(tid, fid, f.table, norms[f.format].storage, "data") }
                   ELSE {}
        t1      == [ task EXCEPT
                       !.supported = IF task.inline THEN << >> ELSE ls.supported,
                       !.load_storages = @ \cup { ls.format },
                       !.load_storage = ls.format,
                       !.item_normalizers = norms,
                       !.root_tables = @ \cup { f.table } ]
    IN  IF outcome # "ok" THEN Raise(t1, outcome)
        ELSE IF n > 0 /\ ~pkg_exists THEN Raise(t1, "IOError")
        ELSE [ t1 EXCEPT
                 !.pos = @ + 1,
                 !.schema = ApplyAll(@, ups),
                 !.schema_updates = @ \o ups,
                 !.total_items = @ + n,
                 !.row_counts = merge_row_count(@, (f.table :> n)),
                 !.populated_root_tables = IF n > 0 THEN @ \cup { f.table } ELSE @,
                 !.written = @ \cup out ]

\* the tables that get an empty file, lines 146-148
EmptyJobTables(task) ==
    { t \in task.root_tables \ task.populated_root_tables : task.schema[t].exists }

\* lines 146-160: the empty files, close_writers, the returned tuple
FinishFiles(tid, task, pkg_exists) ==
    LET empties == { Output(tid, 0, t, task.load_storage, "empty") :
                       t \in EmptyJobTables(task) }
        written == task.written \cup empties
    IN  IF empties # {} /\ ~pkg_exists THEN Raise(task, "IOError")
        ELSE [ task EXCEPT
                 !.st = "done",
                 !.written = written,
                 !.closed = @ \cup { task.load_storage },
                 !.result = [ schema_updates |-> task.schema_updates,
                              total_items    |-> task.total_items,
                              closed_files   |-> { o \in written :
                                                     o.fmt = task.load_storage },
                              row_counts     |-> task.row_counts ] ]

\* the files a worker step adds to temp/<load_id>
Written(before, after) == after.written \ before.written

-----------------------------------------------------------------------------
(* The coordinator: update_table, map_parallel, map_single                 *)

\* Normalize.update_table, lines 162-168: the deltas are applied in order;
\* the first that cannot be coerced raises, the ones before it stay applied
RECURSIVE update_table(_, _)
update_table(schema, schema_updates) ==
    IF schema_updates = << >> THEN [ schema |-> schema, raised |-> FALSE ]
    ELSE IF Conflicts(schema, Head(schema_updates))
         THEN [ schema |-> schema, raised |-> TRUE ]
         ELSE update_table(ApplyDelta(schema, Head(schema_updates)),
                           Tail(schema_updates))

\* a removal that takes the last task of the list along
RemoveWithLast(seq, e) == SelectSeq(seq, LAMBDA y : y # e /\ y # seq[Len(seq)])

\* tasks.remove(task), line 233
Remove(seq, e) == SelectSeq(seq, LAMBDA y : y # e)

\* workers of line 188: getattr(self.pool, '_max_workers', 1)
Workers == IF pool.kind = "process" THEN pool.max_workers ELSE 1

\* NullExecutor runs a submitted call at once, in the coordinator's thread
Inline == pool.kind = "null"

\* the coordinator's thread is free: no call is running in it
CoordinatorRuns ==
    \A t \in DOMAIN futures : futures[t].inline => futures[t].st = "done"

Terminal == { "returned", "failed", "aborted", "crashed" }

\* load_or_create_schema, lines 61-70
load_or_create_schema(schema_name) ==
    IF schema_storage[schema_name] = NoSchema
    THEN NewSchema ELSE schema_storage[schema_name]

\* list_files_to_normalize_sorted
list_files_to_normalize_sorted == SetToSortedSeq(extracted)

\* group_by_schema: the runs of consecutive files of one schema
RECURSIVE group_by_schema(_)
group_by_schema(fs) ==
    IF fs = << >> THEN << >>
    ELSE LET name == files[Head(fs)].schema
             rest == group_by_schema(Tail(fs))
         IN  IF rest # << >> /\ Head(rest).schema_name = name
             THEN << [ schema_name |-> name,
                       files |-> << Head(fs) >> \o Head(rest).files ] >> \o Tail(rest)
             ELSE << [ schema_name |-> name, files |-> << Head(fs) >> ] >> \o rest

\* the coordinator's locals before run()
Idle ==
    [ listed          |-> << >>,
      groups          |-> << >>,
      schema_name     |-> None,
      load_id         |-> 0,
      files           |-> << >>,
      map_f           |-> None,
      schema          |-> NewSchema,
      tasks           |-> << >>,
      scan            |-> << >>,
      schema_updates  |-> << >>,
      row_counts      |-> << >>,
      absorbed        |-> {},
      conflicted      |-> {},
      signal_seen     |-> "unchecked",
      exception       |-> None,
      todelete        |-> << >>,
      last_row_counts |-> << >>,
      at              |-> None ]

\* an exception leaves spool_files: spool_schema_files catches the column
\* conflict of the parallel attempt (lines 284-289) and starts from
\* scratch; everything else leaves run()
Propagate(exc) ==
    IF exc = "CannotCoerceColumnException" /\ co.map_f = "map_parallel"
    THEN /\ temp' = [ temp EXCEPT ![co.load_id] = NewPackage ]
         /\ pc' = "spool_files"
         /\ co' = [ co EXCEPT !.map_f = "map_single", !.tasks = << >>, !.scan = << >>,
                              !.schema_updates = << >>, !.row_counts = << >>,
                              !.absorbed = {}, !.conflicted = {} ]
    ELSE /\ temp' = temp
         /\ pc' = "failed"
         /\ co' = [ co EXCEPT !.exception = exc ]

-----------------------------------------------------------------------------
(* The run driver: run, spool_schema_files, spool_files                    *)

\* a check that never raises, whatever the flag
raise_if_signalled_never == FALSE

\* signals.raise_if_signalled raises exactly when the flag is set
raise_if_signalled == signalled

\* a deletion of every listed file, whatever its group
FilesToDeleteListed == co.listed

\* the files spool_files deletes at line 271
FilesToDelete == co.files

\* run(), lines 293-303
Run ==
    /\ pc = "run"
    /\ LET listed == list_files_to_normalize_sorted
       IN  /\ co' = [ co EXCEPT !.listed = listed,
                                !.groups = group_by_schema(listed),
                                !.last_row_counts = << >> ]
           /\ pc' = IF Len(listed) = 0 THEN "returned" ELSE "group"
    /\ UNCHANGED << files, pool, config, configured, extracted, temp, processing,
                    schema_storage, signalled, clock, futures, assigned, gw >>

\* the next group of the loop of line 304: a load_id from the reading `now`
\* of the wall clock (line 306), and spool_schema_files up to its first
\* spool_files (lines 279-283)
StartGroupAt(now) ==
    /\ pc = "group"
    /\ CoordinatorRuns
    /\ co.groups # << >>
    /\ clock' = now
    /\ LET g == Head(co.groups)
       IN  /\ temp' = [ temp EXCEPT ![now] = NewPackage ]
           /\ assigned' = Append(assigned, << g.schema_name, now >>)
           /\ co' = [ co EXCEPT !.groups = Tail(@),
                                !.schema_name = g.schema_name,
                                !.files = g.files,
                                !.load_id = now,
                                !.map_f = "map_parallel",
                                !.tasks = << >>, !.scan = << >>,
                                !.schema_updates = << >>, !.row_counts = << >>,
                                !.absorbed = {}, !.conflicted = {},
                                !.signal_seen = "unchecked", !.todelete = << >> ]
    /\ pc' = "spool_files"
    /\ UNCHANGED << files, pool, config, configured, extracted, processing,
                    schema_storage, signalled, futures, gw >>

\* line 306 under a wall clock that has advanced since the last reading
StartGroup == StartGroupAt(clock + 1)

\* line 306 under a wall clock that may have been set back, or not have
\* advanced, since the last reading
StartGroupAnyTime == \E now \in LoadIds : StartGroupAt(now)

\* the loop of line 304 is over: line 313
Return ==
    /\ pc = "group"
    /\ CoordinatorRuns
    /\ co.groups = << >>
    /\ pc' = "returned"
    /\ UNCHANGED << files, pool, config, configured, extracted, temp, processing,
                    schema_storage, signalled, clock, co, futures, assigned, gw >>

\* spool_files line 252 and the start of map_f: map_parallel lines 188-202
\* (partition, snapshot, submit every batch) or map_single lines 238-245
\* (one call in the coordinator's thread)
SpoolFiles ==
    /\ pc = "spool_files"
    /\ CoordinatorRuns
    /\ LET schema  == load_or_create_schema(co.schema_name)
           par     == co.map_f = "map_parallel"
           inline  == IF par THEN Inline ELSE TRUE
           grouped == group_worker_files(co.files, Workers)
           batches == IF par THEN grouped.chunks ELSE << co.files >>
           n       == Len(futures)
       IN  IF par /\ grouped.err
           THEN /\ Propagate("IndexError")
                /\ UNCHANGED << futures, config >>
           ELSE /\ futures' = futures \o
                       [ i \in 1..Len(batches) |->
                           NewTask(co.load_id, batches[i], schema, inline,
                                   config.supported_loader_file_formats) ]
                /\ config' = [ config EXCEPT !.supported_loader_file_formats =
                                 IF Len(batches) > 0 THEN SupportedAfterStart(inline)
                                 ELSE @ ]
                /\ co' = [ co EXCEPT !.schema = schema,
                                     !.tasks = [ i \in 1..Len(batches) |-> n + i ] ]
                /\ pc' = IF par THEN "gather" ELSE "map_single"
                /\ temp' = temp
    /\ UNCHANGED << files, pool, configured, extracted, processing,
                    schema_storage, signalled, clock, assigned, gw >>

\* line 204-207: sleep, then scan a copy of the task list
GatherSleep ==
    /\ pc = "gather"
    /\ CoordinatorRuns
    /\ co.scan = << >>
    /\ co.tasks # << >>
    /\ co' = [ co EXCEPT !.scan = co.tasks ]
    /\ UNCHANGED << files, pool, config, configured, extracted, temp, processing,
                    schema_storage, signalled, clock, pc, futures, assigned, gw >>

\* a scan that passes over a task whether it is done or not
GatherPendingAny ==
    /\ pc = "gather"
    /\ CoordinatorRuns
    /\ co.scan # << >>
    /\ co' = [ co EXCEPT !.scan = Tail(@) ]
    /\ UNCHANGED << files, pool, config, configured, extracted, temp, processing,
                    schema_storage, signalled, clock, pc, futures, assigned, gw >>

\* line 209: the task is not done
GatherPending ==
    /\ pc = "gather"
    /\ CoordinatorRuns
    /\ co.scan # << >>
    /\ futures[Head(co.scan)].st # "done"
    /\ co' = [ co EXCEPT !.scan = Tail(@) ]
    /\ UNCHANGED << files, pool, config, configured, extracted, temp, processing,
                    schema_storage, signalled, clock, pc, futures, assigned, gw >>

\* a scan that passes over a done task as if it were pending
GatherDoneSkips ==
    /\ pc = "gather"
    /\ CoordinatorRuns
    /\ co.scan # << >>
    /\ futures[Head(co.scan)].st = "done"
    /\ co' = [ co EXCEPT !.scan = Tail(@) ]
    /\ UNCHANGED << files, pool, config, configured, extracted, temp, processing,
                    schema_storage, signalled, clock, pc, futures, assigned, gw >>

\* lines 209-233: the task is done
GatherDone ==
    /\ pc = "gather"
    /\ CoordinatorRuns
    /\ co.scan # << >>
    /\ futures[Head(co.scan)].st = "done"
    /\ LET tid  == Head(co.scan)
           task == futures[tid]
           m    == update_table(co.schema, task.result.schema_updates)
       IN  IF task.exc # None
           THEN \* pending.result() raises, line 210
                /\ Propagate(task.exc)
                /\ UNCHANGED << futures, config >>
           ELSE IF ~m.raised
           THEN \* lines 213-219 and 233
                /\ co' = [ co EXCEPT
                             !.schema = m.schema,
                             !.schema_updates = @ \o task.result.schema_updates,
                             !.row_counts = merge_row_count(@, task.result.row_counts),
                             !.absorbed = @ \cup { tid },
                             !.tasks = Remove(@, tid),
                             !.scan = Tail(@) ]
                /\ UNCHANGED << futures, config, temp, pc >>
           ELSE \* lines 220-233
                /\ temp' = [ temp EXCEPT ![co.load_id] =
                               [ @ EXCEPT !.files = @ \ task.result.closed_files ] ]
                /\ futures' = Append(futures,
                                 NewTask(task.load_id, task.batch, m.schema, Inline,
                                         config.supported_loader_file_formats))
                /\ config' = [ config EXCEPT !.supported_loader_file_formats =
                                 SupportedAfterStart(Inline) ]
                /\ co' = [ co EXCEPT
                             !.schema = m.schema,
                             !.conflicted = @ \cup { tid },
                             !.tasks = Remove(Append(@, Len(futures) + 1), tid),
                             !.scan = Tail(@) ]
                /\ pc' = pc
    /\ UNCHANGED << files, pool, configured, extracted, processing,
                    schema_storage, signalled, clock, assigned, gw >>

\* line 204 and 235: the task list is empty
MapParallelReturn ==
    /\ pc = "gather"
    /\ CoordinatorRuns
    /\ co.scan = << >>
    /\ co.tasks = << >>
    /\ pc' = "save_schema"
    /\ UNCHANGED << files, pool, config, configured, extracted, temp, processing,
                    schema_storage, signalled, clock, co, futures, assigned, gw >>

\* map_single lines 246-249, once the call of line 238 has returned
MapSingleMerge ==
    /\ pc = "map_single"
    /\ CoordinatorRuns
    /\ LET tid  == co.tasks[1]
           task == futures[tid]
           m    == update_table(co.schema, task.result.schema_updates)
       IN  IF task.exc # None THEN Propagate(task.exc)
           ELSE IF m.raised THEN Propagate("CannotCoerceColumnException")
           ELSE /\ co' = [ co EXCEPT !.schema = m.schema,
                                     !.schema_updates = task.result.schema_updates,
                                     !.row_counts = task.result.row_counts,
                                     !.absorbed = { tid },
                                     !.tasks = << >> ]
                /\ pc' = "save_schema"
                /\ temp' = temp
    /\ UNCHANGED << files, pool, config, configured, extracted, processing,
                    schema_storage, signalled, clock, futures, assigned, gw >>

\* lines 256-260: save_schema
SaveSchema ==
    /\ pc = "save_schema"
    /\ schema_storage' = [ schema_storage EXCEPT ![co.schema_name] = co.schema ]
    /\ pc' = "save_temp"
    /\ UNCHANGED << files, pool, config, configured, extracted, temp, processing,
                    signalled, clock, co, futures, assigned, gw >>

\* lines 262-264: save_temp_schema, save_temp_schema_updates
SaveTemp ==
    /\ pc = "save_temp"
    /\ temp' = [ temp EXCEPT ![co.load_id] =
                   [ @ EXCEPT !.schema = co.schema, !.saved_updates = TRUE,
                              !.updates = co.schema_updates ] ]
    /\ pc' = "signal"
    /\ UNCHANGED << files, pool, config, configured, extracted, processing,
                    schema_storage, signalled, clock, co, futures, assigned, gw >>

\* line 266
RaiseIfSignalled ==
    /\ pc = "signal"
    /\ co' = [ co EXCEPT !.signal_seen = IF signalled THEN "set" ELSE "clear",
                         !.exception = IF raise_if_signalled THEN "SignalReceivedException"
                                       ELSE @ ]
    /\ pc' = IF raise_if_signalled THEN "aborted" ELSE "commit"
    /\ UNCHANGED << files, pool, config, configured, extracted, temp, processing,
                    schema_storage, signalled, clock, futures, assigned, gw >>

\* line 269: commit_temp_load_package renames temp/<load_id>; the rename
\* fails on an existing processing/<load_id> and leaves temp/ as it is
Commit ==
    /\ pc = "commit"
    /\ IF processing[co.load_id].exists
       THEN /\ pc' = "failed"
            /\ co' = [ co EXCEPT !.exception = "OSError" ]
            /\ UNCHANGED << temp, processing >>
       ELSE /\ processing' = [ processing EXCEPT ![co.load_id] = temp[co.load_id] ]
            /\ temp' = [ temp EXCEPT ![co.load_id] = NoPackage ]
            /\ co' = [ co EXCEPT !.todelete = FilesToDelete ]
            /\ pc' = "delete"
    /\ UNCHANGED << files, pool, config, configured, extracted,
                    schema_storage, signalled, clock, futures, assigned, gw >>

\* line 271: delete_extracted_files removes the files one by one
DeleteExtracted ==
    /\ pc = "delete"
    /\ co.todelete # << >>
    /\ extracted' = extracted \ { Head(co.todelete) }
    /\ co' = [ co EXCEPT !.todelete = Tail(@) ]
    /\ UNCHANGED << files, pool, config, configured, temp, processing,
                    schema_storage, signalled, clock, pc, futures, assigned, gw >>

\* lines 273-274, and back to the loop of line 304
FinishGroup ==
    /\ pc = "delete"
    /\ co.todelete = << >>
    /\ co' = [ co EXCEPT !.last_row_counts = co.row_counts ]
    /\ pc' = "group"
    /\ UNCHANGED << files, pool, config, configured, extracted, temp, processing,
                    schema_storage, signalled, clock, futures, assigned, gw >>

-----------------------------------------------------------------------------
(* The pool's tasks, the signal, a crash *)

\* a worker call normalizes its next file (lines 125-144)
TaskNormalizeFile(t) ==
    /\ futures[t].st = "running"
    /\ futures[t].pos < Len(futures[t].batch)
    /\ LET task == futures[t]
           fid  == task.batch[task.pos + 1]
       IN  \E outcome \in Outcomes(task, files[fid]) :
             LET after == NormalizeFile(t, task, fid, outcome,
                                        temp[task.load_id] # NoPackage)
             IN  /\ futures' = [ futures EXCEPT ![t] = after ]
                 /\ temp' = IF Written(task, after) = {} THEN temp
                            ELSE [ temp EXCEPT ![task.load_id] =
                                     [ @ EXCEPT !.files = @ \cup Written(task, after) ] ]
                 /\ config' = IF task.inline
                              THEN [ config EXCEPT !.supported_loader_file_formats =
                                       GetLoadStorage(config, @, files[fid].format).supported ]
                              ELSE config
    /\ UNCHANGED << files, pool, configured, extracted, processing, schema_storage,
                    signalled, clock, pc, co, assigned, gw >>

\* a worker call leaves its loop: lines 146-160
TaskFinish(t) ==
    /\ futures[t].st = "running"
    /\ futures[t].pos = Len(futures[t].batch)
    /\ LET task  == futures[t]
           after == FinishFiles(t, task, temp[task.load_id] # NoPackage)
       IN  /\ futures' = [ futures EXCEPT ![t] = after ]
           /\ temp' = IF Written(task, after) = {} THEN temp
                      ELSE [ temp EXCEPT ![task.load_id] =
                               [ @ EXCEPT !.files = @ \cup Written(task, after) ] ]
    /\ UNCHANGED << files, pool, config, configured, extracted, processing,
                    schema_storage, signalled, clock, pc, co, assigned, gw >>

\* a termination signal sets the flag.  The flag is read at line 266 only,
\* so a signal that arrived during map_f is the one that arrives right
\* after it.
Signal ==
    /\ pc \in { "save_schema", "save_temp", "signal", "commit", "delete" }
    /\ ~signalled
    /\ signalled' = TRUE
    /\ UNCHANGED << files, pool, config, configured, extracted, temp, processing,
                    schema_storage, clock, pc, co, futures, assigned, gw >>

\* the process dies at any step; what is on disk stays
Crash ==
    /\ pc \notin Terminal
    /\ pc' = "crashed"
    /\ co' = [ Idle EXCEPT !.load_id = co.load_id, !.files = co.files,
                           !.schema_name = co.schema_name,
                           !.signal_seen = co.signal_seen, !.at = pc ]
    /\ futures' = << >>
    /\ UNCHANGED << files, pool, config, configured, extracted, temp, processing,
                    schema_storage, signalled, clock, assigned, gw >>

-----------------------------------------------------------------------------
(* Initial states *)

SchemaRank(n) == IF n = "s1" THEN 1 ELSE 2
TableRank(t)  == IF t = "a" THEN 1 ELSE 2
FormatRank(f) == IF f = "jsonl" THEN 1 ELSE 2

\* the order of the file names <schema>.<table>.<format>.<uniq>
NameKey(f) == 100 * SchemaRank(f.schema) + 10 * TableRank(f.table) + FormatRank(f.format)

FileRecs ==
    [ schema : { "s1" }, table : Tables, format : InputFormats, content : Contents ]
    \cup
    [ schema : { "s2" }, table : { "a" }, format : { "jsonl" }, content : { "bigint" } ]

\* the extracted files of a run, numbered in the order of their names
Workloads ==
    UNION { { w \in [ 1..n -> FileRecs ] :
                \A i \in 1..n : \A j \in 1..n : i < j => NameKey(w[i]) <= NameKey(w[j]) }
            : n \in 0..MaxFiles }

Capabilities ==
    { c \in [ preferred_loader_file_format  : { None, "jsonl", "parquet" },
              preferred_staging_file_format : { None, "jsonl", "parquet" },
              supported_loader_file_formats :
                  { << >>, << "jsonl" >>, << "parquet" >>, << "jsonl", "parquet" >> } ] :
        /\ c.preferred_loader_file_format # None \/ c.preferred_staging_file_format # None
        \* a preferred loader format is one the destination loads
        /\ \/ c.preferred_loader_file_format = None
           \/ c.supported_loader_file_formats = << >>
           \/ Contains(c.supported_loader_file_formats, c.preferred_loader_file_format) }

StandardCapabilities ==
    { c \in Capabilities :
        /\ c.preferred_loader_file_format = "jsonl"
        /\ c.preferred_staging_file_format = None
        /\ Contains(c.supported_loader_file_formats, "jsonl") }

\* of the standard ones, those of a destination that loads parquet
ColumnarCapabilities ==
    { c \in StandardCapabilities : Contains(c.supported_loader_file_formats, "parquet") }

Pools ==
    { [ kind |-> "null", max_workers |-> 1 ] } \cup
    { [ kind |-> "process", max_workers |-> n ] : n \in 2..MaxWorkers }

\* a schema saved by an earlier run: table a with column x
KnownSchema ==
    [ NewSchema EXCEPT !["a"] = [ exists |-> TRUE, x |-> "bigint", variants |-> {} ] ]

GwIdle == [ pc |-> "idle", files |-> << >>, no_groups |-> 1, out |-> None ]

Init ==
    /\ files \in Workloads
    /\ pool \in Pools
    /\ config \in Capabilities
    /\ pool.kind = "process" => config \in ColumnarCapabilities
    /\ config \notin StandardCapabilities => Len(files) <= MaxCapsFiles
    /\ configured = config
    /\ extracted = DOMAIN files
    /\ temp = [ l \in LoadIds |-> NoPackage ]
    /\ processing = [ l \in LoadIds |-> NoPackage ]
    /\ schema_storage \in { [ n \in Schemas |-> NoSchema ],
                            [ n \in Schemas |-> IF n = "s1" THEN KnownSchema ELSE NoSchema ] }
    /\ signalled = FALSE
    /\ clock = 0
    /\ pc = "run"
    /\ co = Idle
    /\ futures = << >>
    /\ assigned = << >>
    /\ gw = GwIdle

Next ==
    \/ Run
    \/ StartGroup
    \/ Return
    \/ SpoolFiles
    \/ GatherSleep
    \/ GatherPending
    \/ GatherDone
    \/ MapParallelReturn
    \/ MapSingleMerge
    \/ SaveSchema
    \/ SaveTemp
    \/ RaiseIfSignalled
    \/ Commit
    \/ DeleteExtracted
    \/ FinishGroup
    \/ \E t \in DOMAIN futures : TaskNormalizeFile(t)
    \/ \E t \in DOMAIN futures : TaskFinish(t)
    \/ Signal
    \/ Crash

Spec == Init /\ [][Next]_vars

-----------------------------------------------------------------------------
(* The run under a wall clock that need not advance between two readings  *)

\* a run over files of two schemas, one file each or two of the first
InitLoadIds ==
    /\ Init
    /\ \E i \in DOMAIN files : files[i].schema = "s2"
    /\ \E i \in DOMAIN files : files[i].schema = "s1"
    /\ \A i \in DOMAIN files : files[i].table = "a" /\ files[i].format = "jsonl"
    /\ config \in ColumnarCapabilities

NextLoadIds ==
    \/ Run
    \/ StartGroupAnyTime
    \/ Return
    \/ SpoolFiles
    \/ GatherSleep
    \/ GatherPending
    \/ GatherDone
    \/ MapParallelReturn
    \/ MapSingleMerge
    \/ SaveSchema
    \/ SaveTemp
    \/ RaiseIfSignalled
    \/ Commit
    \/ DeleteExtracted
    \/ FinishGroup
    \/ \E t \in DOMAIN futures : TaskNormalizeFile(t)
    \/ \E t \in DOMAIN futures : TaskFinish(t)
    \/ Signal
    \/ Crash

SpecLoadIds == InitLoadIds /\ [][NextLoadIds]_vars

-----------------------------------------------------------------------------
(* The run of one group whose batches interleave the tables                *)

\* number of files and of workers of that group
WideFiles == 5
WideWorkers == 3

\* five jsonl files with rows, of tables a, a, a, b, b in the order of their
\* names, for a pool of three workers: the batches are [1], [2,4], [3,5]
WideWorkloads ==
    { w \in [ 1..WideFiles -> [ schema : { "s1" }, table : Tables,
                                format : { "jsonl" }, content : Types ] ] :
        /\ \A i \in 1..WideFiles : w[i].table = IF i <= 3 THEN "a" ELSE "b"
        /\ w[1].content = "bigint" }

InitWide ==
    /\ files \in WideWorkloads
    /\ pool = [ kind |-> "process", max_workers |-> WideWorkers ]
    /\ config = [ preferred_loader_file_format  |-> "jsonl",
                  preferred_staging_file_format |-> None,
                  supported_loader_file_formats |-> << "jsonl", "parquet" >> ]
    /\ configured = config
    /\ extracted = DOMAIN files
    /\ temp = [ l \in LoadIds |-> NoPackage ]
    /\ processing = [ l \in LoadIds |-> NoPackage ]
    /\ schema_storage = [ n \in Schemas |-> IF n = "s1" THEN KnownSchema ELSE NoSchema ]
    /\ signalled = FALSE
    /\ clock = 0
    /\ pc = "run"
    /\ co = Idle
    /\ futures = << >>
    /\ assigned = << >>
    /\ gw = GwIdle

SpecWide == InitWide /\ [][Next]_vars

\* the coordinator's thread goes on while map_parallel is running, and the
\* pool goes on running the calls submitted to it
Fairness ==
    /\ WF_vars(GatherSleep)
    /\ WF_vars(GatherPending)
    /\ WF_vars(GatherDone)
    /\ WF_vars(MapParallelReturn)
    /\ WF_vars(\E t \in DOMAIN futures : TaskNormalizeFile(t))
    /\ WF_vars(\E t \in DOMAIN futures : TaskFinish(t))

SpecLive == InitWide /\ [][Next]_vars /\ Fairness

-----------------------------------------------------------------------------
(* group_worker_files on its own *)

\* the names 1..n in ascending order, descending order, or rotated by one
Orderings(n) ==
    { [ i \in 1..n |-> i ],
      [ i \in 1..n |-> n + 1 - i ],
      [ i \in 1..n |-> (i % n) + 1 ] }

InitGroup ==
    /\ \E n \in 0..MaxGFiles : \E fs \in Orderings(n) : \E k \in 1..MaxGroups :
         gw = [ pc |-> "call", files |-> fs, no_groups |-> k, out |-> None ]
    /\ files = << >>
    /\ pool = [ kind |-> "null", max_workers |-> 1 ]
    /\ config = [ preferred_loader_file_format  |-> "jsonl",
                  preferred_staging_file_format |-> None,
                  supported_loader_file_formats |-> << "jsonl" >> ]
    /\ configured = config
    /\ extracted = {}
    /\ temp = [ l \in LoadIds |-> NoPackage ]
    /\ processing = [ l \in LoadIds |-> NoPackage ]
    /\ schema_storage = [ n \in Schemas |-> NoSchema ]
    /\ signalled = FALSE
    /\ clock = 0
    /\ pc = "idle"
    /\ co = Idle
    /\ futures = << >>
    /\ assigned = << >>

\* the call of line 189
GroupWorkerFiles ==
    /\ gw.pc = "call"
    /\ gw' = [ gw EXCEPT !.pc = "done",
                         !.out = group_worker_files(gw.files, gw.no_groups) ]
    /\ UNCHANGED << files, pool, config, configured, extracted, temp, processing,
                    schema_storage, signalled, clock, pc, co, futures, assigned >>

NextGroup == GroupWorkerFiles

SpecGroup == InitGroup /\ [][NextGroup]_vars

-----------------------------------------------------------------------------
(* Properties of group_worker_files (SpecGroup) *)

\* the chunks of the simple chunking of line 176
SimpleChunks == chunks(gw.files, Max(Len(gw.files) \div gw.no_groups, 1))

(* C3: group_worker_files partitions its input exactly: the batches put    *)
(* end to end hold every input file once, none is dropped and none appears *)
(* twice, and no index error is raised.                                    *)
C3_Partition ==
    gw.pc = "done" =>
        /\ ~gw.out.err
        /\ Len(Flatten(gw.out.chunks)) = Len(gw.files)
        /\ Range(Flatten(gw.out.chunks)) = Range(gw.files)

\* an unsorted input whose surplus chunks, one of them of several files,
\* were redistributed
C3_Witness ==
    /\ gw.pc = "done"
    /\ Len(SimpleChunks) >= gw.no_groups + 2
    /\ Len(SimpleChunks[1]) >= 2
    /\ gw.files[1] > gw.files[2]
    /\ Len(gw.out.chunks) = gw.no_groups

(* C9 as stated: group_worker_files returns exactly no_groups batches for  *)
(* every file list.                                                        *)
C9_ExactlyNoGroupsBatches ==
    gw.pc = "done" => ~gw.out.err /\ Len(gw.out.chunks) = gw.no_groups

(* C9 amended: group_worker_files returns min(no_groups, len(files))       *)
(* batches, none of them empty: exactly no_groups when there are at least  *)
(* no_groups files, one batch per file when there are fewer; surplus       *)
(* chunks are redistributed without an index error.                        *)
C9_MinBatches ==
    gw.pc = "done" =>
        /\ ~gw.out.err
        /\ Len(gw.out.chunks) = Min(gw.no_groups, Len(gw.files))
        /\ \A i \in DOMAIN gw.out.chunks : gw.out.chunks[i] # << >>

\* surplus chunks were redistributed and exactly no_groups remain
C9_Witness ==
    /\ gw.pc = "done"
    /\ Len(SimpleChunks) > gw.no_groups + 1
    /\ Len(gw.out.chunks) = gw.no_groups

-----------------------------------------------------------------------------
(* Properties of the run (Spec) *)

\* the load package of the group in hand, where it is
InTemp == temp[co.load_id]
InProcessing == processing[co.load_id]
GroupStarted == co.load_id \in LoadIds

\* a committed package holds a file normalized from extracted file f
Referenced(f) ==
    \E l \in LoadIds : processing[l].exists /\ \E o \in processing[l].files : o.src = f

\* the package of a load of f's schema group is committed, with f's rows
Published(f) ==
    /\ \E i \in DOMAIN assigned :
         assigned[i][1] = files[f].schema /\ processing[assigned[i][2]].exists
    /\ RowsOf(files[f]) > 0 => Referenced(f)

Settled(f) ==
    \/ f \notin extracted /\ Published(f)
    \/ f \in extracted /\ ~Referenced(f)

\* spool_files is between its lines 269 and 271 for f's group, or died there
InCommitWindow(f) ==
    /\ Contains(co.files, f)
    /\ pc = "delete" \/ (pc = "crashed" /\ co.at = "delete")

(* C1 as stated: at every point of a run, every extracted file is either   *)
(* normalized into a committed package and deleted from extracted/, or     *)
(* still in extracted/ with no committed package holding output of it.     *)
C1_AlwaysSettled == \A f \in DOMAIN files : Settled(f)

(* C1 amended: the same holds at every point of a run except while         *)
(* spool_files is between the commit (line 269) and the end of the         *)
(* deletion of the group's files (line 271), or has failed there: then a   *)
(* file of the group may be both committed and still in extracted/.        *)
C1_SettledOutsideCommitWindow ==
    \A f \in DOMAIN files : Settled(f) \/ InCommitWindow(f)

\* a run that committed and deleted one group's file and then ended on a
\* failure with a file of another group still extracted and unpublished
C1_Witness ==
    /\ pc \in { "failed", "crashed", "aborted" }
    /\ \E f \in DOMAIN files : f \notin extracted /\ Referenced(f)
    /\ \E f \in DOMAIN files :
         f \in extracted /\ ~Referenced(f) /\ RowsOf(files[f]) > 0 /\ Contains(co.files, f)

(* C2: a signal seen at raise_if_signalled aborts the spool: the package   *)
(* of the load_id is not committed, no extracted file of the group is      *)
(* deleted and the next listing holds them all.  A package is committed    *)
(* only after the check found no signal, and a file of the group is        *)
(* deleted only after the package is committed.                            *)
C2_SignalAbortsCleanly ==
    GroupStarted =>
        /\ co.signal_seen = "set" =>
              /\ pc = "aborted"
              /\ ~InProcessing.exists
              /\ Range(co.files) \subseteq extracted
              /\ Range(co.files) \subseteq Range(list_files_to_normalize_sorted)
        /\ InProcessing.exists => co.signal_seen = "clear"
        /\ Range(co.files) \subseteq extracted \/ InProcessing.exists

\* a signalled abort that leaves normalized files behind in temp/
C2_Witness ==
    /\ pc = "aborted"
    /\ co.signal_seen = "set"
    /\ InTemp.files # {}
    /\ InTemp.saved_updates

(* C4: when map_parallel returns, temp/<load_id> holds exactly the files   *)
(* written by the absorbed tasks, and no input file's output twice.        *)
C4_TempHoldsAbsorbedOutputsOnly ==
    (pc = "save_schema" /\ co.map_f = "map_parallel") =>
        /\ InTemp.files = UNION { futures[t].written : t \in co.absorbed }
        /\ \A o1 \in InTemp.files : \A o2 \in InTemp.files :
              (o1.src # 0 /\ o1.src = o2.src) => o1 = o2

(* C5: a package committed after the fallback to map_single holds only     *)
(* files written by the single-threaded call.                              *)
C5_FallbackPackageIsSingleThreaded ==
    (pc = "delete" /\ co.map_f = "map_single") =>
        \A o \in InProcessing.files : o.task \in co.absorbed

(* C6: at the commit rename no worker task submitted for the load_id is    *)
(* still running.                                                          *)
C6_NoTaskRunsAtCommit ==
    pc = "delete" =>
        \A t \in DOMAIN futures :
            futures[t].load_id = co.load_id => futures[t].st = "done"

\* the root tables named by the files of the group in hand
GroupTables == { files[f].table : f \in Range(co.files) }
RowsInLoad(t) == \E f \in Range(co.files) : files[f].table = t /\ RowsOf(files[f]) > 0
EmptyFiles(pkg, t) == { o \in pkg.files : o.kind = "empty" /\ o.table = t }

(* C7: in a package committed by map_parallel without any retry, a root    *)
(* table of the load has one empty file if it got no rows and is in the    *)
(* schema, and none otherwise.                                             *)
C7_OneEmptyFilePerRowlessKnownTable ==
    (pc = "delete" /\ co.map_f = "map_parallel" /\ co.conflicted = {}) =>
        \A t \in GroupTables :
            Cardinality(EmptyFiles(InProcessing, t)) =
                IF ~RowsInLoad(t) /\ InProcessing.schema[t].exists THEN 1 ELSE 0

\* the write format the rule of the specification selects for an input format
WriteFormatRule(caps, input) ==
    IF input = "parquet" /\ "parquet" \in Range(caps.supported_loader_file_formats)
    THEN "arrow"
    ELSE IF caps.preferred_loader_file_format # None
         THEN caps.preferred_loader_file_format
         ELSE caps.preferred_staging_file_format

ParquetUnsupported(f) ==
    /\ files[f].format = "parquet"
    /\ "parquet" \notin Range(configured.supported_loader_file_formats)

\* every normalizer and every data file of every worker call follows the rule
FollowsWriteFormatRule ==
    \A t \in DOMAIN futures :
        /\ \A k \in DOMAIN futures[t].item_normalizers :
              /\ futures[t].item_normalizers[k].storage = WriteFormatRule(configured, k)
              /\ futures[t].item_normalizers[k].class =
                    IF k = "parquet" THEN "ParquetItemsNormalizer"
                    ELSE "JsonLItemsNormalizer"
        /\ \A o \in futures[t].written :
              o.kind = "data" =>
                  o.fmt = WriteFormatRule(configured, files[o.src].format)

(* C8 as stated: the write format follows the rule, and a parquet input    *)
(* the destination does not support is never written as parquet or arrow.  *)
C8_NeverParquetWhenUnsupported ==
    /\ FollowsWriteFormatRule
    /\ \A t \in DOMAIN futures : \A o \in futures[t].written :
          (o.kind = "data" /\ ParquetUnsupported(o.src)) =>
              o.fmt \notin { "parquet", "arrow" }

(* C8 amended: the write format is arrow for a parquet input the           *)
(* destination supports, else the preferred loader format, or the          *)
(* preferred staging format when that is null; a parquet input the         *)
(* destination does not support is written in that preferred format, never *)
(* as arrow, and as parquet only when the preferred format is parquet; the *)
(* item normalizer is chosen by the input format.                          *)
C8_WriteFormat ==
    /\ FollowsWriteFormatRule
    /\ \A t \in DOMAIN futures : \A o \in futures[t].written :
          (o.kind = "data" /\ ParquetUnsupported(o.src)) =>
              /\ o.fmt # "arrow"
              /\ o.fmt = Or(configured.preferred_loader_file_format,
                            configured.preferred_staging_file_format)
              /\ futures[t].item_normalizers["parquet"].class = "ParquetItemsNormalizer"

\* a parquet file written as jsonl, through the parquet normalizer, for a
\* destination that does not load parquet
C8_Witness ==
    \E t \in DOMAIN futures : \E o \in futures[t].written :
        /\ o.kind = "data"
        /\ ParquetUnsupported(o.src)
        /\ o.fmt = "jsonl"
        /\ configured.preferred_loader_file_format = None
        /\ futures[t].item_normalizers["parquet"].class = "ParquetItemsNormalizer"

(* C10: a worker call leaves the configuration it received, the            *)
(* destination capabilities among it, as it was.                           *)
C10_ConfigurationUnchanged == config = configured

-----------------------------------------------------------------------------
(* Properties of the load_ids (SpecLoadIds) *)

(* C11: within one run the load_ids of the schema groups are pairwise      *)
(* distinct and each sorts strictly after those of the groups before it.   *)
C11_LoadIdsStrictlyIncrease ==
    \A i \in DOMAIN assigned : \A j \in DOMAIN assigned :
        i < j => assigned[i][2] < assigned[j][2]

-----------------------------------------------------------------------------
(* Properties of map_parallel (Spec) *)

\* map_parallel has returned normally for the group in hand
MapParallelReturned ==
    /\ co.map_f = "map_parallel"
    /\ pc \in { "save_schema", "save_temp", "signal", "commit", "delete", "aborted" }

\* the worker calls submitted for the group in hand
Submitted == { t \in DOMAIN futures : futures[t].load_id = co.load_id }

\* the batches of line 189
Batches == Range(group_worker_files(co.files, Workers).chunks)

(* C12: map_parallel returns normally only with an empty task list, and    *)
(* then every batch of group_worker_files has been absorbed exactly once,  *)
(* by its first attempt or by one retry; every other attempt conflicted at *)
(* its merge, and no call that raised was absorbed or let map_parallel     *)
(* return.                                                                 *)
C12_EveryBatchAbsorbedOnce ==
    /\ \A t \in co.absorbed : t \in DOMAIN futures /\ futures[t].exc = None
    /\ MapParallelReturned =>
          /\ co.tasks = << >>
          /\ { futures[t].batch : t \in co.absorbed } = Batches
          /\ Cardinality(co.absorbed) = Cardinality(Batches)
          /\ co.absorbed \cap co.conflicted = {}
          /\ co.absorbed \cup co.conflicted = Submitted
          /\ \A t \in Submitted : futures[t].st = "done" /\ futures[t].exc = None

\* two batches, one of them absorbed at its retry
C12_Witness ==
    /\ MapParallelReturned
    /\ Cardinality(Batches) = 2
    /\ co.conflicted # {}
    /\ \E t \in co.absorbed : \E u \in co.conflicted : futures[t].batch = futures[u].batch

\* the step of lines 220-233 on task tid: its merge raised a conflict
ConflictStep(tid) == tid \in co'.conflicted /\ tid \notin co.conflicted

(* C13: when the merge of a done task conflicts, the coordinator deletes   *)
(* the output files of the task, submits exactly one new call with the     *)
(* same load_id and batch and with the schema as the conflict left it,     *)
(* takes the failing task off the list and puts the new one at its end,    *)
(* and leaves every other call alone.                                      *)
C13_ConflictResubmitsOnce ==
    [][ \A tid \in DOMAIN futures :
          ConflictStep(tid) =>
            /\ temp'[co.load_id].files \cap futures[tid].written = {}
            /\ Len(futures') = Len(futures) + 1
            /\ \A t \in DOMAIN futures : futures'[t] = futures[t]
            /\ futures'[Len(futures')].load_id = futures[tid].load_id
            /\ futures'[Len(futures')].batch = futures[tid].batch
            /\ futures'[Len(futures')].snapshot = co'.schema
            /\ futures'[Len(futures')].pos = 0
            /\ co'.tasks = Append(Remove(co.tasks, tid), Len(futures'))
      ]_vars

-----------------------------------------------------------------------------
(* Properties of the merge (SpecWide) *)

(* C14: a merge that raises a column conflict is aborted as a whole: the   *)
(* authoritative schema is after the conflict what it was before the merge *)
(* attempt, with none of the deltas of the task.                           *)
C14_ConflictLeavesSchemaUnchanged ==
    [][ \A tid \in DOMAIN futures : ConflictStep(tid) => co'.schema = co.schema ]_vars

-----------------------------------------------------------------------------
(* Termination of map_parallel (SpecLive) *)

\* the gather loop is over: map_parallel returned, or a call raised, or
\* the process died
GatherOver ==
    \/ pc = "save_schema"
    \/ pc = "crashed"
    \/ \E t \in Submitted : futures[t].exc # None

(* C15: as long as the coordinator and the pool keep running, the gather   *)
(* loop of map_parallel ends: unless a call raises or the process dies,    *)
(* the task list is emptied, retried tasks included, and map_parallel      *)
(* returns.                                                                *)
C15_MapParallelTerminates == (pc = "gather") ~> GatherOver

\* map_parallel returned with three batches absorbed, one at its retry
C15_Witness ==
    /\ pc = "save_schema"
    /\ co.map_f = "map_parallel"
    /\ Cardinality(Batches) = 3
    /\ co.conflicted # {}
    /\ co.tasks = << >>

-----------------------------------------------------------------------------
(* Order of the merges (SpecLive) *)

\* the calls whose result the coordinator has taken to merge
Merged == co.absorbed \cup co.conflicted

Completed(t) == t \in DOMAIN futures /\ futures[t].st = "done"
Running(t) == t \in DOMAIN futures /\ futures[t].st = "running"

\* the first calls of a group: the batches of three workers
FirstCalls == 1..WideWorkers

ScanStep == pc = "gather" /\ pc' = "gather" /\ co.scan # << >> /\ co'.scan = Tail(co.scan)

-----------------------------------------------------------------------------
(* Properties of the worker's Load Storages (Spec) *)

\* the Load Storages through which a call has written, by their format
OpenedWriters(task) == { o.fmt : o \in task.written }

(* C17: when a worker call is over, by return or by exception, it has      *)
(* called close_writers on every Load Storage through which it wrote.      *)
C17_EveryWriterClosed ==
    \A t \in DOMAIN futures :
        futures[t].st = "done" => OpenedWriters(futures[t]) \subseteq futures[t].closed

(* C18: the empty files of root tables without rows are written through    *)
(* the default Load Storage of the call, the one created at line 107 for   *)
(* the preferred loader format, whatever input formats came before.        *)
C18_EmptyFilesThroughDefaultStorage ==
    \A t \in DOMAIN futures : \A o \in futures[t].written :
        o.kind = "empty" => o.fmt = futures[t].default_storage

-----------------------------------------------------------------------------
(* Properties of the returned row counts and schema updates (Spec)         *)

\* the rows the files of the group hold for table t
RowsInGroup(t) ==
    Cardinality({ f \in Range(co.files) : files[f].table = t /\ RowsOf(files[f]) > 0 })

\* the rows of table t in the results of the absorbed calls
RowsAbsorbed(t) ==
    Cardinality({ << u, f >> \in co.absorbed \X Range(co.files) :
                    /\ Contains(futures[u].batch, f)
                    /\ files[f].table = t
                    /\ RowsOf(files[f]) > 0 })

(* C19: the row counts map_parallel returns are, table by table, the sum   *)
(* of the row counts of the absorbed results: a conflicted result adds     *)
(* nothing, its retry adds once, and every root table named by a file of   *)
(* the group is a key, with 0 if it got no rows.                           *)
C19_RowCountsOfAbsorbedResults ==
    MapParallelReturned =>
        /\ DOMAIN co.row_counts = GroupTables
        /\ \A t \in GroupTables :
              /\ co.row_counts[t] = RowsAbsorbed(t)
              /\ co.row_counts[t] = RowsInGroup(t)
              /\ co.row_counts[t] >= 0
        /\ \A u \in co.absorbed :
              DOMAIN futures[u].result.row_counts =
                  { files[f].table : f \in Range(futures[u].batch) }

\* a return after a conflict, with a table of two rows from two calls and
\* a table without rows
C19_Witness ==
    /\ MapParallelReturned
    /\ co.conflicted # {}
    /\ \E t \in GroupTables : co.row_counts[t] = 0
    /\ \E t \in GroupTables : co.row_counts[t] = 2

-----------------------------------------------------------------------------
(* Properties of the returned schema updates (SpecWide) *)

(* C20: when map_parallel returns, the schema updates it returns applied   *)
(* in order to the schema of the start of the call give the authoritative  *)
(* schema of the return: they account for every column the schema gained.  *)
C20_UpdatesAccountForSchema ==
    (pc = "save_schema" /\ co.map_f = "map_parallel") =>
        ApplyAll(load_or_create_schema(co.schema_name), co.schema_updates) = co.schema

=============================================================================
